---- MODULE Spec2Model ----
(***************************************************************************)
(* The CAG bridge (bridge/cag_bridge.py): an HTTP server that turns        *)
(* POST /create-cache into one run of create_kv_cache.sh followed by an    *)
(* optional copy to the master KV cache and the removal of the temp file.  *)
(*                                                                         *)
(* HTTPServer serves one request at a time, so the handler is one process  *)
(* whose position is pc.  A path is the sequence of its components, so     *)
(* that os.path.dirname is computed; "" is the empty sequence.  A file is  *)
(* modelled by its length in blocks (NoFile when absent): the create       *)
(* script writes a file of 1..MaxContent blocks, and an interrupted copy   *)
(* leaves a shorter prefix.                                                *)
(***************************************************************************)
EXTENDS Integers, Sequences, FiniteSets, TLC

\* ---------------------------------------------------------------- bounds
\* The longest cache file the create script writes, in blocks.
MaxContent == 2

\* The most files under the cache directory, and the most registry rows.
MaxFiles == 2
MaxRows == 2
\* The most create-cache calls that clients send.
MaxCalls == 2

\* ------------------------------------------------------------- constants
\* cag_bridge.py:139  estimated_tokens + 1000
Padding == 1000
\* cag_bridge.py:139  max(..., 2048)
MinContext == 2048
\* cag_bridge.py:140  (context_size + 255) // 256 * 256
Quantum == 256

MASTER_KV_CACHE == <<"data", "kv_caches", "master_cache.bin">>

MODEL_PATH == <<"models", "gemma-4b.gguf">>
QUERY_SCRIPT_PATH == <<"cag-scripts", "query_kv_cache.sh">>
CREATE_SCRIPT_PATH == <<"cag-scripts", "create_kv_cache.sh">>

\* LLAMACPP_MAX_CONTEXT is read from the environment at start-up.
MaxContextValues == {1000, 2048, 3000, 128000}

\* ---------------------------------------------------------------- inputs
NoFile == -1
\* kv_cache_size = None
NoSize == -1
\* JSON null
Null == "null"
TempFile == <<"tmp", "doc1.txt">>
KvFile == <<"data", "kv_caches", "doc1.bin">>
\* The files of a second caller.
TempFile2 == <<"tmp", "doc2.txt">>
KvFile2 == <<"data", "kv_caches", "doc2.bin">>
EmptyPath == <<>>

\* The files check_files looks for and reports as issues when missing.
RequiredPaths == {QUERY_SCRIPT_PATH, CREATE_SCRIPT_PATH, MODEL_PATH}

Paths == {TempFile, KvFile, TempFile2, KvFile2, MASTER_KV_CACHE}
         \cup RequiredPaths
TempPathValues == {EmptyPath, TempFile, KvFile, MASTER_KV_CACHE}
KvPathValues == {EmptyPath, KvFile, MASTER_KV_CACHE}

DocumentIdValues ==
    { <<>>,
      <<"d", "o", "c">>,
      <<"m", "a", "s", "t">>,
      <<"M", "y", "M", "A", "S", "T", "e", "r">> }

EstimatedTokenValues == {-1, 0, 1048, 1049, 2000, 5000, 200000}

\* data.get('setAsMaster', False): the JSON value of the key, or Absent.
Absent == "absent"
SetAsMasterValues == {Absent, "false", "true"}

\* The query texts: a word, two words, no text, text that closes the quote
\* the command line puts around it, and text with one quote character.  A
\* text is the sequence of its characters; a word without a character the
\* shell gives a meaning to stands for its letters.
QueryValues ==
    { <<>>,
      <<"hello">>,
      <<"what", " ", "now">>,
      <<"\"", ";", "reboot", ";", "\"">>,
      <<"it", "\"", "s">> }

\* data.get('maxTokens', 1024) and data.get('temperature', 0.7): the JSON
\* value as Python prints it, Null for null, or Absent.
MaxTokensValues == {Absent, "256"}
TemperatureValues == {Absent, Null, "0.2"}

\* A cache path the caller may put in the body of a query.
QueryCachePathValues == {Absent, KvFile, MASTER_KV_CACHE}

StderrValues == {"", "error: failed to load model"}
ExitCodes == {0, 1}

VARIABLES
    MAX_CONTEXT,    \* the configured maximum context
    fs,             \* path -> length of the file there, or NoFile
    dirs,           \* the directories that exist
    pc,             \* the handler's position
    request,        \* the parsed JSON body of the request being served
    context_size,   \* handle_create_cache's local, 0 before it is computed
    process,        \* returncode, stdout_text, stderr_text of the child
    kv_cache_size,  \* handle_create_cache's local, NoSize for None
    promotion,      \* what the promotion block logged
    cleanup,        \* what the clean-up block logged
    spawned,        \* the child processes started for this request
    response,       \* the HTTP response written
    command,        \* handle_query's shell command line, character by character
    cache_dir_exists,   \* list_caches: the cache directory is there
    cache_dir,      \* list_caches: the files under it, in the order of a walk
    registry,       \* list_caches: the rows of cag_document_registry
    list_args,      \* list_caches: its arguments and whether the store answered
    cache_info,     \* list_caches: the list it prints
    list_result,    \* list_caches: its return value, "none" before it ran
    backlog,        \* the calls that wait to be accepted: for each, whether
                    \* it was sent while another request was being served
    serving,        \* the number of the call accepted last, and how it waited
    master_call     \* the call whose copy the master cache holds, 0 for none

listVars == <<cache_dir_exists, cache_dir, registry, list_args, cache_info,
              list_result>>

serveVars == <<backlog, serving, master_call>>

vars == <<MAX_CONTEXT, fs, dirs, pc, request, context_size, process,
          kv_cache_size, promotion, cleanup, spawned, response, command,
          listVars, serveVars>>

\* --------------------------------------------------------------- helpers
Min(a, b) == IF a <= b THEN a ELSE b
Max(a, b) == IF a >= b THEN a ELSE b

\* os.path.dirname
Dirname(p) == IF Len(p) = 0 THEN <<>> ELSE SubSeq(p, 1, Len(p) - 1)

\* os.path.exists for a file path
Exists(p) == p \in DOMAIN fs /\ fs[p] # NoFile

\* the directories os.makedirs(d, exist_ok=True) leaves in place
MakeDirs(d) == dirs \cup {SubSeq(d, 1, n) : n \in 1..Len(d)}

\* str.lower on the letters the document ids use
LowerChar(c) ==
    CASE c = "M" -> "m" [] c = "A" -> "a" [] c = "S" -> "s"
      [] c = "T" -> "t" [] c = "E" -> "e" [] c = "R" -> "r"
      [] OTHER -> c
Lower(s) == [i \in 1..Len(s) |-> LowerChar(s[i])]

\* sub in s
Contains(s, sub) ==
    \E i \in 0..(Len(s) - Len(sub)) : SubSeq(s, i + 1, i + Len(sub)) = sub

\* data.get(key, default)
GetOr(v, default) == IF v = Absent THEN default ELSE v

\* the truth value Python gives data.get(key, False)
Truthy(v) == v = "true"

\* Mutant: the size is rounded down to a multiple of 256.
ComputeContextSizeRoundsDown(estimated_tokens, max_context) ==
    LET clamped == Min(Max(estimated_tokens + 1000, 2048), max_context)
    IN  (clamped \div 256) * 256

\* context_size = min(max(estimated_tokens + 1000, 2048), int(MAX_CONTEXT))
\* context_size = (context_size + 255) // 256 * 256
ComputeContextSize(estimated_tokens, max_context) ==
    LET clamped == Min(Max(estimated_tokens + Padding, MinContext), max_context)
    IN  ((clamped + (Quantum - 1)) \div Quantum) * Quantum

\* Mutant: the document id is compared without lower().
WantsMasterCaseSensitive(data) ==
    \/ Contains(data.documentId, <<"m", "a", "s", "t", "e", "r">>)
    \/ Truthy(data.setAsMaster)

\* 'master' in document_id.lower() or data.get('setAsMaster', False)
WantsMaster(data) ==
    \/ Contains(Lower(data.documentId), <<"m", "a", "s", "t", "e", "r">>)
    \/ Truthy(data.setAsMaster)

NoRequest == [documentId |-> <<>>, tempFilePath |-> <<>>, kvCachePath |-> <<>>,
              estimatedTokens |-> 0, setAsMaster |-> Absent]
NoProcess == [returncode |-> -1, stdout_text |-> "", stderr_text |-> ""]
NoResponse == [status |-> 0]

ErrorResponse(msg) == [status |-> 500, success |-> FALSE, error |-> msg]

\* No request is being served.
HandlerIdle ==
    /\ pc = "idle"
    /\ request = NoRequest
    /\ context_size = 0
    /\ process = NoProcess
    /\ kv_cache_size = NoSize
    /\ promotion = "none"
    /\ cleanup = "none"
    /\ spawned = 0
    /\ response = NoResponse
    /\ command = <<>>

\* No call waits, none was accepted, the master cache is nobody's.
NoCalls ==
    /\ backlog = <<>>
    /\ serving = [id |-> 0, overlapped |-> FALSE]
    /\ master_call = 0

\* list_caches has not been called and has nothing to read.
ListIdle ==
    /\ cache_dir_exists = FALSE
    /\ cache_dir = <<>>
    /\ registry = <<>>
    /\ list_args = <<>>
    /\ cache_info = <<>>
    /\ list_result = "none"

\* ------------------------------------------------------------------ Init
Init ==
    /\ MAX_CONTEXT \in MaxContextValues
    /\ fs = [p \in Paths |-> IF p \in RequiredPaths THEN 1 ELSE NoFile]
    /\ dirs = {<<"tmp">>}
    /\ HandlerIdle
    /\ ListIdle
    /\ NoCalls

\* --------------------------------------------------------------- actions
\* The workflow engine writes the document text to the temp file before it
\* posts the request.
WriteTempFile ==
    /\ pc = "idle"
    /\ fs[TempFile] = NoFile
    /\ fs' = [fs EXCEPT ![TempFile] = 1]
    /\ UNCHANGED <<MAX_CONTEXT, dirs, pc, request, context_size, process,
                   kv_cache_size, promotion, cleanup, spawned, response>>
    /\ UNCHANGED <<command, listVars, serveVars>>

\* The body of a create-cache request is read and parsed: data.get for the
\* four keys, '' for a document id that is not there.
ReadCreateCache(documentIds, tempPaths, kvPaths, tokens, flags) ==
    /\ \E has_id \in BOOLEAN, d \in documentIds, t \in tempPaths,
          k \in kvPaths, e \in tokens, m \in flags :
          request' = [documentId |-> IF has_id THEN d ELSE <<>>,
                      tempFilePath |-> t,
                      kvCachePath |-> k, estimatedTokens |-> e,
                      setAsMaster |-> m]
    /\ pc' = "validate"
    /\ UNCHANGED <<MAX_CONTEXT, fs, dirs, context_size, process, kv_cache_size,
                   promotion, cleanup, spawned, response>>
    /\ UNCHANGED <<command, listVars>>

\* do_POST with path /create-cache, for a call that arrives while the server
\* waits for one.
ReceiveCreateCache ==
    /\ pc = "idle"
    /\ ReadCreateCache(DocumentIdValues, TempPathValues, KvPathValues,
                       EstimatedTokenValues, SetAsMasterValues)
    /\ UNCHANGED serveVars

\* The except clause of handle_create_cache: a 500 response, nothing else.
Raise(msg) ==
    /\ response' = ErrorResponse(msg)
    /\ pc' = "done"

\* Mutant: the temp file is not checked.
ValidateWithoutFileCheck ==
    /\ pc = "validate"
    /\ IF request.documentId = <<>>
         THEN Raise("documentId is required")
         ELSE pc' = "makedirs" /\ UNCHANGED response
    /\ UNCHANGED <<MAX_CONTEXT, fs, dirs, request, context_size, process,
                   kv_cache_size, promotion, cleanup, spawned>>
    /\ UNCHANGED <<command, listVars, serveVars>>

\* Mutant: the temp file is checked before the document id.
ValidateFileCheckFirst ==
    /\ pc = "validate"
    /\ IF ~Exists(request.tempFilePath)
         THEN Raise("Temp file not found")
         ELSE IF request.documentId = <<>>
                THEN Raise("documentId is required")
                ELSE pc' = "makedirs" /\ UNCHANGED response
    /\ UNCHANGED <<MAX_CONTEXT, fs, dirs, request, context_size, process,
                   kv_cache_size, promotion, cleanup, spawned>>
    /\ UNCHANGED <<command, listVars, serveVars>>

\* if not document_id: raise ...; if not os.path.exists(temp_file_path): raise ...
Validate ==
    /\ pc = "validate"
    /\ IF request.documentId = <<>>
         THEN Raise("documentId is required")
         ELSE IF ~Exists(request.tempFilePath)
                THEN Raise("Temp file not found")
                ELSE pc' = "makedirs" /\ UNCHANGED response
    /\ UNCHANGED <<MAX_CONTEXT, fs, dirs, request, context_size, process,
                   kv_cache_size, promotion, cleanup, spawned>>
    /\ UNCHANGED <<command, listVars, serveVars>>

\* os.makedirs(os.path.dirname(kv_cache_path), exist_ok=True): raises for ''
\* and when the operating system refuses.
EnsureCacheDir ==
    /\ pc = "makedirs"
    /\ LET kv_cache_dir == Dirname(request.kvCachePath) IN
         \/ /\ kv_cache_dir = <<>>
            /\ Raise("No such file or directory: ''")
            /\ UNCHANGED dirs
         \/ /\ kv_cache_dir # <<>>
            /\ kv_cache_dir \notin dirs
            /\ Raise("Permission denied")
            /\ UNCHANGED dirs
         \/ /\ kv_cache_dir # <<>>
            /\ dirs' = MakeDirs(kv_cache_dir)
            /\ pc' = "size"
            /\ UNCHANGED response
    /\ UNCHANGED <<MAX_CONTEXT, fs, request, context_size, process,
                   kv_cache_size, promotion, cleanup, spawned>>
    /\ UNCHANGED <<command, listVars, serveVars>>

\* The two assignments to context_size.
Size ==
    /\ pc = "size"
    /\ context_size' = ComputeContextSize(request.estimatedTokens, MAX_CONTEXT)
    /\ pc' = "invoke"
    /\ UNCHANGED <<MAX_CONTEXT, fs, dirs, request, process, kv_cache_size,
                   promotion, cleanup, spawned, response>>
    /\ UNCHANGED <<command, listVars, serveVars>>

\* subprocess.Popen(command, shell=True, ...), communicate() and the two
\* decode('utf-8') calls.  The create script is a black box: it exits with any
\* code, writes any stderr, and leaves its output file alone or (re)writes it.
\* Popen raises when no child can be started; decode raises when the child's
\* output is not UTF-8.
Invoke ==
    /\ pc = "invoke"
    /\ \/ /\ Raise("OSError: cannot start process")
          /\ UNCHANGED <<fs, process, spawned>>
       \/ \E rc \in ExitCodes, err \in StderrValues,
             written \in {NoFile} \cup (1..MaxContent), utf8 \in BOOLEAN :
            /\ spawned' = spawned + 1
            /\ fs' = IF written = NoFile THEN fs
                     ELSE [fs EXCEPT ![request.kvCachePath] = written]
            /\ IF utf8
                 THEN /\ process' = [returncode |-> rc, stdout_text |-> "out",
                                     stderr_text |-> err]
                      /\ pc' = "verify"
                      /\ UNCHANGED response
                 ELSE /\ Raise("UnicodeDecodeError")
                      /\ UNCHANGED process
    /\ UNCHANGED <<MAX_CONTEXT, dirs, request, context_size, kv_cache_size,
                   promotion, cleanup>>
    /\ UNCHANGED <<command, listVars, serveVars>>

\* Mutant: the copy leaves an existing destination alone.
CopyFileKeepsExisting(src, dst) ==
    IF fs[dst] # NoFile THEN fs ELSE [fs EXCEPT ![dst] = fs[src]]

\* shutil.copy2(src, dst) that succeeds
CopyFile(src, dst) == [fs EXCEPT ![dst] = fs[src]]

\* What a shutil.copy2(src, dst) that raises can leave at dst: dst as it was
\* (SameFileError, or dst could not be opened), or a shorter prefix of src.
FailedCopyResults(src, dst) ==
    {fs[dst]} \cup (IF src = dst THEN {} ELSE 0..(fs[src] - 1))

\* Mutant: the exit code is not looked at.
CacheCreatedIgnoringExitCode == Exists(request.kvCachePath)

\* if process.returncode == 0 and os.path.exists(kv_cache_path)
CacheCreated == process.returncode = 0 /\ Exists(request.kvCachePath)

\* os.makedirs(master_dir, exist_ok=True); shutil.copy2(kv_cache_path,
\* MASTER_KV_CACHE); logger.info(...)
CopySucceeds ==
    /\ request.kvCachePath # MASTER_KV_CACHE
    /\ dirs' = MakeDirs(Dirname(MASTER_KV_CACHE))
    /\ fs' = CopyFile(request.kvCachePath, MASTER_KV_CACHE)
    /\ master_call' = serving.id
    /\ promotion' = "set"
    /\ pc' = "cleanup"
    /\ UNCHANGED response

\* Mutant: the exception of the copy reaches the handler's except clause.
CopyFailsAndPropagates ==
    /\ \E left \in FailedCopyResults(request.kvCachePath, MASTER_KV_CACHE) :
          /\ fs' = [fs EXCEPT ![MASTER_KV_CACHE] = left]
          /\ master_call' = IF left = fs[MASTER_KV_CACHE] THEN master_call
                             ELSE 0
    /\ promotion' = "failed"
    /\ Raise("Failed to set as master KV cache")
    /\ UNCHANGED dirs

\* except Exception as e: logger.error("Failed to set as master KV cache")
CopyFails ==
    /\ \E left \in FailedCopyResults(request.kvCachePath, MASTER_KV_CACHE) :
          /\ fs' = [fs EXCEPT ![MASTER_KV_CACHE] = left]
          /\ master_call' = IF left = fs[MASTER_KV_CACHE] THEN master_call
                             ELSE 0
    /\ promotion' = "failed"
    /\ pc' = "cleanup"
    /\ UNCHANGED <<dirs, response>>

\* kv_cache_size = None; if returncode == 0 and exists(kv_cache_path): getsize,
\* and the promotion block with its own try/except.
VerifyAndPromote ==
    /\ pc = "verify"
    /\ IF CacheCreated
         THEN /\ kv_cache_size' = fs[request.kvCachePath]
              /\ IF WantsMaster(request)
                   THEN CopySucceeds \/ CopyFails
                   ELSE /\ pc' = "cleanup"
                        /\ UNCHANGED <<fs, dirs, promotion, response,
                                       master_call>>
         ELSE /\ kv_cache_size' = NoSize
              /\ pc' = "cleanup"
              /\ UNCHANGED <<fs, dirs, promotion, response, master_call>>
    /\ UNCHANGED <<MAX_CONTEXT, request, context_size, process, cleanup,
                   spawned>>
    /\ UNCHANGED <<command, listVars, backlog, serving>>

\* Mutant: the temp file is kept when the create command failed.
CleanUpOnlyOnSuccess ==
    /\ pc = "cleanup"
    /\ IF Exists(request.tempFilePath) /\ process.returncode = 0
         THEN \/ /\ fs' = [fs EXCEPT ![request.tempFilePath] = NoFile]
                 /\ cleanup' = "removed"
              \/ /\ cleanup' = "failed"
                 /\ UNCHANGED fs
         ELSE UNCHANGED <<fs, cleanup>>
    /\ pc' = "respond"
    /\ UNCHANGED <<MAX_CONTEXT, dirs, request, context_size, process,
                   kv_cache_size, promotion, spawned, response>>
    /\ UNCHANGED <<command, listVars, serveVars>>

\* try: if exists(temp_file_path): os.remove(temp_file_path)
\* except: logger.warning(...)
CleanUp ==
    /\ pc = "cleanup"
    /\ IF Exists(request.tempFilePath)
         THEN \/ /\ fs' = [fs EXCEPT ![request.tempFilePath] = NoFile]
                 /\ cleanup' = "removed"
              \/ /\ cleanup' = "failed"
                 /\ UNCHANGED fs
         ELSE UNCHANGED <<fs, cleanup>>
    /\ pc' = "respond"
    /\ UNCHANGED <<MAX_CONTEXT, dirs, request, context_size, process,
                   kv_cache_size, promotion, spawned, response>>
    /\ UNCHANGED <<command, listVars, serveVars>>

\* The response dictionary and the 200 that carries it.
CreateCacheResponse ==
    [status |-> 200,
     success |-> process.returncode = 0,
     documentId |-> request.documentId,
     kvCachePath |-> request.kvCachePath,
     kvCacheSize |-> kv_cache_size,
     contextSize |-> context_size,
     error |-> IF process.returncode # 0 THEN process.stderr_text ELSE Null,
     output |-> process.stdout_text]

Respond ==
    /\ pc = "respond"
    /\ response' = CreateCacheResponse
    /\ pc' = "done"
    /\ UNCHANGED <<MAX_CONTEXT, fs, dirs, request, context_size, process,
                   kv_cache_size, promotion, cleanup, spawned>>
    /\ UNCHANGED <<command, listVars, serveVars>>

\* ---------------------------------------------------------- handle_query

\* A path as the text an f-string puts in the command line.
RECURSIVE PathString(_)
PathString(p) ==
    IF p = <<>> THEN <<>> ELSE <<"/", Head(p)>> \o PathString(Tail(p))

\* f"Answer this question based on your knowledge:\n\nQuestion: {query}\n\nAnswer:"
FormatQuery(query) ==
    <<"Answer", " ", "this", " ", "question", " ", "based", " ", "on", " ",
      "your", " ", "knowledge:", "\n", "\n", "Question:", " ">>
    \o query \o <<"\n", "\n", "Answer:">>

\* Mutant: the flag is written whatever the temperature is.
TempParamAlways(temperature) == <<"--temp", " ", temperature>>

\* f"--temp {temperature}" if temperature is not None else ""
TempParam(temperature) ==
    IF temperature # Null THEN <<"--temp", " ", temperature>> ELSE <<>>

\* Mutant: the cache path is written before the model path.
QueryCommandCacheFirst(query, max_tokens, temperature) ==
    PathString(QUERY_SCRIPT_PATH)
    \o <<" ", "\"">> \o PathString(MASTER_KV_CACHE) \o <<"\"">>
    \o <<" ", "\"">> \o PathString(MODEL_PATH) \o <<"\"">>
    \o <<" ", "\"">> \o FormatQuery(query) \o <<"\"">>
    \o <<" ", max_tokens, " ">> \o TempParam(temperature)

\* f"{QUERY_SCRIPT_PATH} \"{MODEL_PATH}\" \"{MASTER_KV_CACHE}\"
\*   \"{formatted_query}\" {max_tokens} {temp_param}"
QueryCommand(query, max_tokens, temperature) ==
    PathString(QUERY_SCRIPT_PATH)
    \o <<" ", "\"">> \o PathString(MODEL_PATH) \o <<"\"">>
    \o <<" ", "\"">> \o PathString(MASTER_KV_CACHE) \o <<"\"">>
    \o <<" ", "\"">> \o FormatQuery(query) \o <<"\"">>
    \o <<" ", max_tokens, " ">> \o TempParam(temperature)

\* What the shell of Popen(command, shell=True) makes of a command line:
\* a double quote opens or closes a quoted stretch, a space outside quotes
\* ends a word, a semicolon or a newline outside quotes ends a command.
ShellStart ==
    [quoted |-> FALSE, open |-> FALSE, word |-> <<>>, words |-> <<>>,
     cmds |-> <<>>]

ShellEndWord(st) ==
    IF st.open
      THEN [st EXCEPT !.words = Append(@, st.word), !.word = <<>>,
                      !.open = FALSE]
      ELSE st

ShellEndCommand(st) ==
    IF st.words # <<>>
      THEN [st EXCEPT !.cmds = Append(@, st.words), !.words = <<>>]
      ELSE st

ShellStep(st, c) ==
    IF st.quoted
      THEN IF c = "\"" THEN [st EXCEPT !.quoted = FALSE]
                       ELSE [st EXCEPT !.word = Append(@, c)]
      ELSE IF c = "\"" THEN [st EXCEPT !.quoted = TRUE, !.open = TRUE]
      ELSE IF c = " " THEN ShellEndWord(st)
      ELSE IF c \in {";", "\n"} THEN ShellEndCommand(ShellEndWord(st))
      ELSE [st EXCEPT !.open = TRUE, !.word = Append(@, c)]

RECURSIVE ShellScan(_, _)
ShellScan(st, s) ==
    IF s = <<>> THEN st ELSE ShellScan(ShellStep(st, Head(s)), Tail(s))

\* The commands the shell runs, each the sequence of its words; none when
\* a quote is left open (a syntax error).
ShellParse(s) ==
    LET st == ShellScan(ShellStart, s)
    IN  IF st.quoted THEN <<>> ELSE ShellEndCommand(ShellEndWord(st)).cmds

\* do_POST with path /query: the body is read and parsed.
ReceiveQuery ==
    /\ pc = "idle"
    /\ \E q \in QueryValues, m \in MaxTokensValues, t \in TemperatureValues,
          c \in QueryCachePathValues :
          request' = [query |-> q, maxTokens |-> m, temperature |-> t,
                      cachePath |-> c]
    /\ pc' = "q_build"
    /\ UNCHANGED <<MAX_CONTEXT, fs, dirs, context_size, process, kv_cache_size,
                   promotion, cleanup, spawned, response, command, listVars, serveVars>>

\* query, max_tokens, temperature = data.get(...); formatted_query; command
BuildQuery ==
    /\ pc = "q_build"
    /\ command' = QueryCommand(request.query,
                               GetOr(request.maxTokens, "1024"),
                               GetOr(request.temperature, "0.7"))
    /\ pc' = "q_invoke"
    /\ UNCHANGED <<MAX_CONTEXT, fs, dirs, request, context_size, process,
                   kv_cache_size, promotion, cleanup, spawned, response,
                   listVars, serveVars>>

\* Mutant: the prompt sent to the engine is echoed, and the error is always
\* the captured stderr.
QueryResponseEchoesPrompt(proc) ==
    [status |-> 200,
     success |-> proc.returncode = 0,
     response |-> proc.stdout_text,
     error |-> proc.stderr_text,
     query |-> FormatQuery(request.query)]

\* The response dictionary of handle_query.
QueryResponse(proc) ==
    [status |-> 200,
     success |-> proc.returncode = 0,
     response |-> proc.stdout_text,
     error |-> IF proc.returncode # 0 THEN proc.stderr_text ELSE Null,
     query |-> request.query]

\* Mutant: a command that failed is run a second time.
InvokeQueryWithRetry ==
    /\ pc = "q_invoke"
    /\ \E rc \in ExitCodes, err \in StderrValues :
         LET proc == [returncode |-> rc, stdout_text |-> "out",
                      stderr_text |-> err]
         IN  /\ spawned' = spawned + (IF rc # 0 THEN 2 ELSE 1)
             /\ process' = proc
             /\ response' = QueryResponse(proc)
             /\ pc' = "done"
    /\ UNCHANGED <<MAX_CONTEXT, fs, dirs, request, context_size, kv_cache_size,
                   promotion, cleanup, command, listVars, serveVars>>

\* Popen(command, shell=True), communicate(), the two decode('utf-8') calls
\* and the response.  Popen raises when no child can be started; decode
\* raises when the child's output is not UTF-8.
InvokeQuery ==
    /\ pc = "q_invoke"
    /\ \/ /\ Raise("OSError: cannot start process")
          /\ UNCHANGED <<process, spawned>>
       \/ \E rc \in ExitCodes, err \in StderrValues, utf8 \in BOOLEAN :
            LET proc == [returncode |-> rc, stdout_text |-> "out",
                         stderr_text |-> err]
            IN  /\ spawned' = spawned + 1
                /\ IF utf8
                     THEN /\ process' = proc
                          /\ response' = QueryResponse(proc)
                          /\ pc' = "done"
                     ELSE /\ Raise("UnicodeDecodeError")
                          /\ UNCHANGED process
    /\ UNCHANGED <<MAX_CONTEXT, fs, dirs, request, context_size, kv_cache_size,
                   promotion, cleanup, command, listVars, serveVars>>

\* ------------------------------------------------------------------ do_GET
\* Mutant: a missing master cache is an issue too.
CheckFilesWithMaster ==
    (IF ~Exists(QUERY_SCRIPT_PATH) THEN <<"Query script not found">> ELSE <<>>)
    \o (IF ~Exists(CREATE_SCRIPT_PATH) THEN <<"Create script not found">>
        ELSE <<>>)
    \o (IF ~Exists(MODEL_PATH) THEN <<"Model not found">> ELSE <<>>)
    \o (IF ~Exists(MASTER_KV_CACHE) THEN <<"Master KV cache not found">>
        ELSE <<>>)

\* check_files(): the issues, in the order of its tests; a missing master
\* cache is logged and gives no issue.
CheckFiles ==
    (IF ~Exists(QUERY_SCRIPT_PATH) THEN <<"Query script not found">> ELSE <<>>)
    \o (IF ~Exists(CREATE_SCRIPT_PATH) THEN <<"Create script not found">>
        ELSE <<>>)
    \o (IF ~Exists(MODEL_PATH) THEN <<"Model not found">> ELSE <<>>)

\* health_data
HealthData ==
    [status |-> IF CheckFiles # <<>> THEN "unhealthy" ELSE "healthy",
     issues |-> CheckFiles,
     config |-> [master_kv_cache |-> MASTER_KV_CACHE,
                 model_path |-> MODEL_PATH,
                 query_script |-> QUERY_SCRIPT_PATH,
                 create_script |-> CREATE_SCRIPT_PATH,
                 max_context |-> MAX_CONTEXT]]

\* What a request that is not a create-cache or a query leaves unchanged.
OnlyResponds ==
    /\ pc' = "done"
    /\ UNCHANGED <<MAX_CONTEXT, fs, dirs, context_size, process, kv_cache_size,
                   promotion, cleanup, spawned>>
    /\ UNCHANGED <<command, listVars, serveVars>>

\* do_GET with path /
GetRoot ==
    /\ pc = "idle"
    /\ request' = [method |-> "GET", path |-> "/"]
    /\ response' = [status |-> 200, body |-> "CAG Bridge Server Running"]
    /\ OnlyResponds

\* do_GET with path /health
GetHealth ==
    /\ pc = "idle"
    /\ request' = [method |-> "GET", path |-> "/health"]
    /\ response' = [status |-> 200, body |-> HealthData]
    /\ OnlyResponds

\* do_GET and do_POST with any other path: send_response(404)
NotFound ==
    /\ pc = "idle"
    /\ \E method \in {"GET", "POST"} :
          request' = [method |-> method, path |-> "/other"]
    /\ response' = [status |-> 404]
    /\ OnlyResponds


\* The handler returns: its locals are gone and the server waits for the
\* next request.
Return ==
    /\ pc = "done"
    /\ pc' = "idle"
    /\ request' = NoRequest
    /\ context_size' = 0
    /\ process' = NoProcess
    /\ kv_cache_size' = NoSize
    /\ promotion' = "none"
    /\ cleanup' = "none"
    /\ spawned' = 0
    /\ response' = NoResponse
    /\ command' = <<>>
    /\ UNCHANGED <<MAX_CONTEXT, fs, dirs, listVars, serveVars>>

Next ==
    \/ WriteTempFile
    \/ ReceiveCreateCache
    \/ Validate
    \/ EnsureCacheDir
    \/ Size
    \/ Invoke
    \/ VerifyAndPromote
    \/ CleanUp
    \/ Respond
    \/ ReceiveQuery
    \/ BuildQuery
    \/ InvokeQuery
    \/ GetRoot
    \/ GetHealth
    \/ NotFound
    \/ Return

Spec == Init /\ [][Next]_vars

\* -------------------------------------------------------------- run_server
\* HTTPServer.serve_forever: connections wait in the listen queue of the
\* socket; one is accepted when the handler of the one before has returned.

\* A client connects and posts a create-cache request, whatever the server is
\* doing: the call waits in the listen queue.
SendCreateCache ==
    /\ serving.id + Len(backlog) < MaxCalls
    /\ backlog' = Append(backlog, pc # "idle")
    /\ UNCHANGED <<MAX_CONTEXT, fs, dirs, pc, request, context_size, process,
                   kv_cache_size, promotion, cleanup, spawned, response,
                   command, listVars, serving, master_call>>

\* Mutant: the server is a ThreadingHTTPServer-like one that starts on a
\* waiting call whatever it is doing.
AcceptCreateCacheAtOnce ==
    /\ backlog # <<>>
    /\ ReadCreateCache({<<"d", "o", "c">>, <<"m", "a", "s", "t">>},
                       {TempFile, TempFile2}, {KvFile, KvFile2}, {2000},
                       {"true"})
    /\ backlog' = Tail(backlog)
    /\ serving' = [id |-> serving.id + 1, overlapped |-> Head(backlog)]
    /\ UNCHANGED master_call

\* The server accepts the call that waited longest, once no handler runs,
\* and do_POST hands it to handle_create_cache.  The calls are ones that ask
\* for promotion, each for a document and a cache path of its caller.
AcceptCreateCache ==
    /\ pc = "idle"
    /\ backlog # <<>>
    /\ ReadCreateCache({<<"d", "o", "c">>, <<"m", "a", "s", "t">>},
                       {TempFile, TempFile2}, {KvFile, KvFile2}, {2000},
                       {"true"})
    /\ backlog' = Tail(backlog)
    /\ serving' = [id |-> serving.id + 1, overlapped |-> Head(backlog)]
    /\ UNCHANGED master_call

\* The bridge when it starts to serve, with the documents of two callers
\* written.
ServeInit ==
    /\ MAX_CONTEXT = 128000
    /\ fs = [p \in Paths |->
               IF p \in RequiredPaths \cup {TempFile, TempFile2} THEN 1
               ELSE NoFile]
    /\ dirs = {<<"tmp">>}
    /\ HandlerIdle
    /\ ListIdle
    /\ NoCalls

ServeNext ==
    \/ SendCreateCache
    \/ AcceptCreateCache
    \/ Validate
    \/ EnsureCacheDir
    \/ Size
    \/ Invoke
    \/ VerifyAndPromote
    \/ CleanUp
    \/ Respond
    \/ Return

ServeSpec == ServeInit /\ [][ServeNext]_vars

\* The bridge at any moment between requests, as far as do_GET can tell: the
\* scripts and the model are installed or not, the master cache is there
\* (with some content) or not.
HealthInit ==
    /\ MAX_CONTEXT \in MaxContextValues
    /\ fs \in { f \in [Paths -> {NoFile} \cup (1..MaxContent)] :
                  /\ \A p \in {TempFile, KvFile, TempFile2, KvFile2} :
                        f[p] = NoFile
                  /\ \A p \in RequiredPaths : f[p] \in {NoFile, 1} }
    /\ dirs = {<<"tmp">>}
    /\ HandlerIdle
    /\ ListIdle
    /\ NoCalls

HealthNext ==
    \/ GetRoot
    \/ GetHealth
    \/ NotFound
    \/ Return

HealthSpec == HealthInit /\ [][HealthNext]_vars

\* ------------------------------------------------------------ list_caches
\* (scripts/python/list_caches.py)  Times are days; a size is in bytes.
\* None, for last_used, usage_count and the days argument
NoValue == -1
\* datetime.now()
Now == 10
\* 1024 * 1024
MiB == 1048576

CACHE_DIR == <<"kv_caches">>

\* The files the cache directory may hold: two caches of one name in two
\* directories, a third cache, and a file that is no cache.
FileValues ==
    [path : {CACHE_DIR \o <<"a.bin">>, CACHE_DIR \o <<"sub", "a.bin">>,
             CACHE_DIR \o <<"b.bin">>},
     size : {MiB, 2 * MiB}, mtime : {6}]
    \cup
    [path : {CACHE_DIR \o <<"notes.txt">>}, size : {MiB}, mtime : {7}]

\* The registry rows: a never-used cache (usage_count NULL), one used long
\* ago and one used lately; for the caches of the directory and for one
\* whose file is gone.
RowValues ==
    { [kv_cache_path |-> p, document_id |-> d[1], file_name |-> d[2],
       last_used |-> d[3], usage_count |-> d[4], created_at |-> d[5]] :
        p \in {CACHE_DIR \o <<"a.bin">>, CACHE_DIR \o <<"sub", "a.bin">>,
               CACHE_DIR \o <<"gone.bin">>},
        d \in { <<"docA", "a.txt", NoValue, NoValue, 1>>,
                <<"docB", "b.txt", 2, 3, 2>>,
                <<"docA", "b.txt", 8, 1, 3>> } }

SortByValues == {"document", "size", "date", "usage"}
DaysValues == {NoValue, 5}

\* The sequences of at most n elements of S.
SeqsUpTo(S, n) == UNION { [1..k -> S] : k \in 0..n }

\* The contents of the cache directory: files of different paths.
DirectoryValues ==
    { q \in SeqsUpTo(FileValues, MaxFiles) :
        \A i, j \in 1..Len(q) : i # j => q[i].path # q[j].path }

\* The contents of the registry: kv_cache_path is its unique key.
RegistryValues ==
    { q \in SeqsUpTo(RowValues, MaxRows) :
        \A i, j \in 1..Len(q) :
            i # j => q[i].kv_cache_path # q[j].kv_cache_path }

\* os.path.basename, Path.name
Basename(p) == p[Len(p)]

\* The names that match "*.bin".
MatchesBin(name) == name \in {"a.bin", "b.bin", "gone.bin"}

\* Mutant: every file of the directory is taken for a cache.
GlobEveryFile(files) == files

\* cache_path.glob("**/*.bin")
RECURSIVE Glob(_)
Glob(files) ==
    IF files = <<>> THEN <<>>
    ELSE IF MatchesBin(Basename(Head(files).path))
           THEN <<Head(files)>> \o Glob(Tail(files))
           ELSE Glob(Tail(files))

\* The dictionary stored for a row; usage_count or 0.
RowInfo(row) ==
    [document_id |-> row.document_id, file_name |-> row.file_name,
     last_used |-> row.last_used,
     usage_count |-> IF row.usage_count = NoValue THEN 0 ELSE row.usage_count,
     created_at |-> row.created_at]

\* Mutant: the first row of a name is the one kept.
RECURSIVE BuildDbInfoFirstWins(_, _)
BuildDbInfoFirstWins(rows, db_info) ==
    IF rows = <<>> THEN db_info
    ELSE LET name == Basename(Head(rows).kv_cache_path)
         IN  BuildDbInfoFirstWins(Tail(rows),
                 [n \in DOMAIN db_info \cup {name} |->
                     IF n \in DOMAIN db_info THEN db_info[n]
                     ELSE RowInfo(Head(rows))])

\* for row in rows: db_info[os.path.basename(cache_path)] = {...}
RECURSIVE BuildDbInfo(_, _)
BuildDbInfo(rows, db_info) ==
    IF rows = <<>> THEN db_info
    ELSE LET name == Basename(Head(rows).kv_cache_path)
         IN  BuildDbInfo(Tail(rows),
                 [n \in DOMAIN db_info \cup {name} |->
                     IF n = name THEN RowInfo(Head(rows)) ELSE db_info[n]])

EmptyDbInfo == [n \in {} |-> 0]

\* Mutant: the lookup dictionary is built whatever the connection.
DbInfoWithoutConnection(connected) == BuildDbInfo(registry, EmptyDbInfo)

\* db_info = {} when there is no connection, the lookup dictionary otherwise
DbInfo(connected) ==
    IF connected THEN BuildDbInfo(registry, EmptyDbInfo) ELSE EmptyDbInfo

\* Mutant: a file without a row is given the time of the listing.
EntryCreatedNow(file, db_info) ==
    LET cache_name == Basename(file.path)
        known == cache_name \in DOMAIN db_info
    IN  [cache_file |-> file.path,
         cache_name |-> cache_name,
         document_id |-> IF known THEN db_info[cache_name].document_id
                                  ELSE "unknown",
         file_name |-> IF known THEN db_info[cache_name].file_name
                                ELSE "unknown",
         size_mb |-> file.size \div MiB,
         created_at |-> IF known THEN db_info[cache_name].created_at ELSE Now,
         last_used |-> IF known THEN db_info[cache_name].last_used
                                ELSE NoValue,
         usage_count |-> IF known THEN db_info[cache_name].usage_count ELSE 0]

\* The dictionary appended to cache_info for a file.
Entry(file, db_info) ==
    LET cache_name == Basename(file.path)
        known == cache_name \in DOMAIN db_info
    IN  [cache_file |-> file.path,
         cache_name |-> cache_name,
         document_id |-> IF known THEN db_info[cache_name].document_id
                                  ELSE "unknown",
         file_name |-> IF known THEN db_info[cache_name].file_name
                                ELSE "unknown",
         size_mb |-> file.size \div MiB,
         created_at |-> IF known THEN db_info[cache_name].created_at
                                 ELSE file.mtime,
         last_used |-> IF known THEN db_info[cache_name].last_used
                                ELSE NoValue,
         usage_count |-> IF known THEN db_info[cache_name].usage_count ELSE 0]

\* if days is not None and last_used: ... if last_used < cutoff_date: continue
SkippedByDays(entry, days) ==
    /\ days # NoValue
    /\ entry.last_used # NoValue
    /\ entry.last_used < Now - days

\* Mutant: the filter is the other way round.
SkippedByUnusedInverted(entry, unused_only) ==
    unused_only /\ entry.usage_count = 0

\* if unused_only and usage_count > 0: continue
SkippedByUnused(entry, unused_only) ==
    unused_only /\ entry.usage_count > 0

\* The loop over cache_files.
RECURSIVE Collect(_, _, _, _)
Collect(files, db_info, days, unused_only) ==
    IF files = <<>> THEN <<>>
    ELSE LET entry == Entry(Head(files), db_info)
             rest == Collect(Tail(files), db_info, days, unused_only)
         IN  IF SkippedByDays(entry, days) \/ SkippedByUnused(entry, unused_only)
               THEN rest
               ELSE <<entry>> \o rest

\* The order of Python's strings on the ones the model uses.
StringRank(str) ==
    CASE str = "a.txt" -> 1 [] str = "b.txt" -> 2 [] str = "docA" -> 3
      [] str = "docB" -> 4 [] str = "unknown" -> 5

\* Mutant: the sizes are sorted in increasing order.
SortsBeforeAscending(sort_by, x, y) ==
    CASE sort_by = "document" ->
            \/ StringRank(x.document_id) < StringRank(y.document_id)
            \/ /\ x.document_id = y.document_id
               /\ StringRank(x.file_name) < StringRank(y.file_name)
      [] sort_by = "size" -> x.size_mb < y.size_mb
      [] sort_by = "date" -> x.created_at > y.created_at
      [] sort_by = "usage" -> x.usage_count > y.usage_count

\* x comes before y whatever their places were: the keys and the reverse
\* flags of the four cache_info.sort calls.
SortsBefore(sort_by, x, y) ==
    CASE sort_by = "document" ->
            \/ StringRank(x.document_id) < StringRank(y.document_id)
            \/ /\ x.document_id = y.document_id
               /\ StringRank(x.file_name) < StringRank(y.file_name)
      [] sort_by = "size" -> x.size_mb > y.size_mb
      [] sort_by = "date" -> x.created_at > y.created_at
      [] sort_by = "usage" -> x.usage_count > y.usage_count

\* x put into a sorted list behind every element it does not come before
RECURSIVE Insert(_, _, _)
Insert(sort_by, sorted, x) ==
    IF sorted = <<>> THEN <<x>>
    ELSE IF SortsBefore(sort_by, x, Head(sorted))
           THEN <<x>> \o sorted
           ELSE <<Head(sorted)>> \o Insert(sort_by, Tail(sorted), x)

\* list.sort: a stable sort
RECURSIVE Sort(_, _, _)
Sort(sort_by, sorted, entries) ==
    IF entries = <<>> THEN sorted
    ELSE Sort(sort_by, Insert(sort_by, sorted, Head(entries)), Tail(entries))

\* The cache directory, the registry and the other state before a call.
ListInit ==
    /\ MAX_CONTEXT \in {128000}
    /\ fs = [p \in Paths |-> IF p \in RequiredPaths THEN 1 ELSE NoFile]
    /\ dirs = {<<"tmp">>}
    /\ pc = "idle"
    /\ request = NoRequest
    /\ context_size = 0
    /\ process = NoProcess
    /\ kv_cache_size = NoSize
    /\ promotion = "none"
    /\ cleanup = "none"
    /\ spawned = 0
    /\ response = NoResponse
    /\ command = <<>>
    /\ cache_dir_exists \in BOOLEAN
    /\ cache_dir \in DirectoryValues
    /\ ~cache_dir_exists => cache_dir = <<>>
    /\ registry \in RegistryValues
    /\ list_args = <<>>
    /\ cache_info = <<>>
    /\ list_result = "none"
    /\ NoCalls

\* list_caches(sort_by, days, unused_only): False when the cache directory
\* is missing; otherwise the entries are collected, filtered and sorted.
\* get_db_connection returns None when psycopg2.connect raises.
ListCaches ==
    /\ list_result = "none"
    /\ \E sort_by \in SortByValues, days \in DaysValues,
          unused_only \in BOOLEAN, connected \in BOOLEAN :
          /\ list_args' = [sort_by |-> sort_by, days |-> days,
                           unused_only |-> unused_only,
                           connected |-> connected]
          /\ IF ~cache_dir_exists
               THEN /\ list_result' = "False"
                    /\ cache_info' = <<>>
               ELSE /\ list_result' = "True"
                    /\ cache_info' =
                         Sort(sort_by, <<>>,
                              Collect(Glob(cache_dir), DbInfo(connected),
                                      days, unused_only))
    /\ UNCHANGED <<MAX_CONTEXT, fs, dirs, pc, request, context_size, process,
                   kv_cache_size, promotion, cleanup, spawned, response,
                   command, cache_dir_exists, cache_dir, registry,
                   serveVars>>

ListNext == ListCaches

ListSpec == ListInit /\ [][ListNext]_vars

\* ---------------------------------------------------------------- claims
\* The handler has computed context_size for the request it is serving.
Sized == pc \in {"invoke", "verify", "cleanup", "respond"}

\* The handler has sent the 200 response of a create command that returned.
Returned ==
    pc = "done" /\ response.status = 200 /\ "kvCachePath" \in DOMAIN response

\* x rounded up to a multiple of 256, as the specification words it
RoundedUp(x) == IF x % 256 = 0 THEN x ELSE x + (256 - (x % 256))

\* C1: for estimatedTokens >= 0 and maxContext >= 2048 the context size of a
\* new cache is a multiple of 256, >= 2048, <= maxContext and
\* >= min(estimatedTokens + 1000 rounded up, maxContext).
C1_ContextSizeWithinLimits ==
    (Sized /\ request.estimatedTokens >= 0 /\ MAX_CONTEXT >= 2048) =>
        /\ context_size % 256 = 0
        /\ context_size >= 2048
        /\ context_size <= MAX_CONTEXT
        /\ context_size >= Min(RoundedUp(request.estimatedTokens + 1000), MAX_CONTEXT)

C3_InvalidSizeRejected ==
    (/\ pc # "idle"
     /\ "estimatedTokens" \in DOMAIN request
     /\ (request.estimatedTokens < 0 \/ MAX_CONTEXT < 2048)) =>
        /\ ~Sized
        /\ spawned = 0
        /\ pc = "done" => response.status = 500

\* C4: a create request whose input file does not exist ends in a failure
\* response and starts no process, whatever its other fields are.
C4_MissingInputFails ==
    [][(pc = "validate" /\ ~Exists(request.tempFilePath)) =>
          /\ pc' = "done"
          /\ response'.status = 500
          /\ response'.success = FALSE
          /\ request.documentId # <<>> => response'.error = "Temp file not found"
          /\ spawned' = 0
          /\ fs' = fs
          /\ dirs' = dirs]_vars

C4_Witness ==
    /\ pc = "done"
    /\ response.status = 500
    /\ response.error = "Temp file not found"
    /\ request.kvCachePath = KvFile
    /\ spawned = 0

\* C5 as stated: when the create command exits non-zero the result is a
\* failure carrying stderr, the input file is not deleted and no promotion is
\* attempted.
C5_FailedCreateKeepsInput ==
    (Returned /\ process.returncode # 0) =>
        /\ response.success = FALSE
        /\ response.error = process.stderr_text
        /\ promotion = "none"
        /\ Exists(request.tempFilePath)

\* C5 as amended: when the create command exits non-zero the result is a
\* failure carrying stderr, no promotion is attempted and no file is touched
\* by the verification step, and the input file is deleted by the clean-up
\* step as after a success (it stays only when the removal itself fails).
C5_FailedCreateReportsStderr ==
    /\ []((Returned /\ process.returncode # 0) =>
            /\ response.success = FALSE
            /\ response.error = process.stderr_text
            /\ promotion = "none"
            /\ cleanup \in {"removed", "failed"}
            /\ cleanup = "removed" => ~Exists(request.tempFilePath))
    /\ [][(pc = "verify" /\ process.returncode # 0) =>
            (fs' = fs /\ dirs' = dirs /\ pc' = "cleanup")]_vars

C5_Witness ==
    /\ Returned
    /\ process.returncode = 1
    /\ response.error = "error: failed to load model"
    /\ WantsMaster(request)
    /\ Exists(request.kvCachePath)
    /\ fs[MASTER_KV_CACHE] # fs[request.kvCachePath]
    /\ cleanup = "removed"

\* C6: when the create command exits 0 and the output file does not exist,
\* the result is not reported as a success and no promotion is attempted.
C6_MissingOutputSurfaced ==
    (Returned /\ process.returncode = 0 /\ ~Exists(request.kvCachePath)) =>
        /\ response.success = FALSE
        /\ promotion = "none"

\* C7 as stated: after a create with setAsMaster=true returns success for a
\* cache it created, the master cache holds the content of the new cache.
C7_MasterEqualsNewCache ==
    (/\ Returned
     /\ response.success
     /\ request.setAsMaster = "true"
     /\ response.kvCacheSize # NoSize) =>
        /\ Exists(request.kvCachePath)
        /\ fs[MASTER_KV_CACHE] = fs[request.kvCachePath]

\* C7 as amended: when the copy to the master path did not fail, the master
\* cache holds the content of the new cache once the promotion is done,
\* whatever it held before; it still does when a create with setAsMaster=true
\* returns success, if the temp file path names neither of the two files.
C7_PromotedMasterEqualsNewCache ==
    /\ (pc = "cleanup" /\ promotion = "set") =>
          /\ Exists(request.kvCachePath)
          /\ fs[MASTER_KV_CACHE] = fs[request.kvCachePath]
          /\ fs[MASTER_KV_CACHE] = kv_cache_size
    /\ (/\ Returned
        /\ response.success
        /\ request.setAsMaster = "true"
        /\ response.kvCacheSize # NoSize
        /\ promotion # "failed"
        /\ request.tempFilePath \notin {request.kvCachePath, MASTER_KV_CACHE}) =>
          /\ Exists(request.kvCachePath)
          /\ fs[MASTER_KV_CACHE] = fs[request.kvCachePath]
          /\ fs[MASTER_KV_CACHE] = response.kvCacheSize

C7_Witness ==
    /\ Returned
    /\ response.success
    /\ request.setAsMaster = "true"
    /\ promotion = "set"
    /\ fs[MASTER_KV_CACHE] = MaxContent
    /\ fs[request.kvCachePath] = MaxContent

\* The document ids of DocumentIdValues that contain "master" in any case.
MasterDocumentIds == { <<"M", "y", "M", "A", "S", "T", "e", "r">> }

\* The request is flagged for promotion, in the words of the specification.
FlaggedForMaster ==
    request.setAsMaster = "true" \/ request.documentId \in MasterDocumentIds

\* C8: after a successful creation, promotion is attempted if and only if
\* setAsMaster is true or documentId contains "master" in any case; a
\* request that is not flagged never writes the master cache path.
C8_PromotionIffFlagged ==
    /\ []((/\ pc \in {"cleanup", "respond"} \/ Returned
           /\ process.returncode = 0
           /\ kv_cache_size # NoSize) =>
            (promotion # "none" <=> FlaggedForMaster))
    /\ [][(pc = "verify" /\ ~FlaggedForMaster) =>
            fs'[MASTER_KV_CACHE] = fs[MASTER_KV_CACHE]]_vars

C8_Witness ==
    /\ Returned
    /\ request.setAsMaster = "false"
    /\ request.documentId = <<"M", "y", "M", "A", "S", "T", "e", "r">>
    /\ promotion = "set"

\* C9: when the copy to the master path fails, the create still returns a
\* successful result with the cache path and size; it is never a failure or
\* a 500 response.
C9_PromotionFailureStillSuccess ==
    promotion = "failed" =>
        /\ pc \in {"cleanup", "respond", "done"}
        /\ pc = "done" =>
              /\ response.status = 200
              /\ response.success
              /\ response.kvCachePath = request.kvCachePath
              /\ response.kvCacheSize = kv_cache_size
              /\ response.kvCacheSize # NoSize

C9_Witness ==
    /\ Returned
    /\ promotion = "failed"
    /\ response.success
    /\ request.kvCachePath = KvFile
    /\ fs[MASTER_KV_CACHE] # fs[KvFile]

\* C10: the temp input file is deleted whatever the create command's exit
\* code, the verification and the promotion gave, and only in the clean-up
\* step, after sizing, invocation, verification and promotion; a removal
\* that fails changes nothing in the result.
C10_TempFileRemovedLast ==
    /\ [](Returned =>
            /\ cleanup \in {"removed", "failed"}
            /\ cleanup = "removed" => ~Exists(request.tempFilePath)
            /\ response.success = (process.returncode = 0)
            /\ response.kvCacheSize = kv_cache_size
            /\ response.contextSize = context_size)
    /\ [][(fs[TempFile] # NoFile /\ fs'[TempFile] = NoFile) =>
            /\ pc = "cleanup"
            /\ context_size # 0
            /\ spawned = 1
            /\ process.returncode \in ExitCodes
            /\ pc' = "respond"]_vars

C10_Witness ==
    /\ Returned
    /\ process.returncode # 0
    /\ cleanup = "removed"
    /\ ~Exists(TempFile)
    /\ request.tempFilePath = TempFile

\* The request being served is a create-cache request / a query request.
IsCreate == "documentId" \in DOMAIN request
IsQuery == "query" \in DOMAIN request

\* C11: every execution of a create request ends having passed through the
\* clean-up step, also when it fails in validation, sizing or the launch of
\* the process: no execution ends with the temp file in place and the
\* clean-up never attempted.
C11_NoEndWithoutCleanup ==
    (pc = "done" /\ IsCreate /\ Exists(request.tempFilePath)) =>
        cleanup # "none"

\* The last n characters of a text.
Ending(s, n) == SubSeq(s, Len(s) - n + 1, Len(s))

\* C12: the command of a query whose temperature is null holds no
\* temperature flag; for every other temperature the flag is there with
\* that value.
C12_TemperatureFlag ==
    pc = "q_invoke" =>
        /\ request.temperature = Null =>
              /\ \A i \in 1..Len(command) : command[i] # "--temp"
              /\ Ending(command, 1) = <<" ">>
        /\ request.temperature = "0.2" =>
              Ending(command, 4) = <<" ", "--temp", " ", "0.2">>
        /\ request.temperature = Absent =>
              Ending(command, 4) = <<" ", "--temp", " ", "0.7">>

C12_Witness ==
    /\ pc = "q_invoke"
    /\ request.temperature = Null
    /\ request.maxTokens = "256"
    /\ Ending(command, 2) = <<"256", " ">>

Parsed == ShellParse(command)

PassedValidation ==
    /\ request.documentId # <<>>
    /\ Exists(request.tempFilePath) \/ cleanup = "removed"

\* C15 as stated: a create request or a query that passes validation starts
\* exactly one process (unless none can be started at all); a request
\* rejected in validation starts none.
C15_ExactlyOneProcess ==
    (/\ pc = "done"
     /\ IsCreate \/ IsQuery
     /\ response.error # "OSError: cannot start process") =>
        /\ (IsCreate /\ PassedValidation) => spawned = 1
        /\ (IsCreate /\ ~PassedValidation) => spawned = 0
        /\ IsQuery => spawned = 1

\* The 500 responses of a request that ended before a process was started.
ErrorsBeforeLaunch ==
    { "documentId is required", "Temp file not found",
      "No such file or directory: ''", "Permission denied",
      "OSError: cannot start process" }

\* C15 as amended: a create request or a query starts at most one process
\* and never a second one, whatever the exit code: exactly one when it
\* reaches the launch and the launch succeeds, none when it is rejected in
\* validation, when the cache directory cannot be made or when the process
\* cannot be started.
C15_AtMostOneProcess ==
    /\ [](spawned \in {0, 1})
    /\ []((pc = "done" /\ (IsCreate \/ IsQuery)) =>
            (spawned = 0 <=>
               (response.status = 500 /\ response.error \in ErrorsBeforeLaunch)))
    /\ [][spawned' # spawned =>
            \/ spawned = 0 /\ spawned' = 1 /\ pc \in {"invoke", "q_invoke"}
            \/ spawned' = 0 /\ pc = "done"]_vars

C15_Witness ==
    /\ pc = "done"
    /\ IsQuery
    /\ process.returncode = 1
    /\ spawned = 1

\* C16: the user's text reaches the command as one argument: whatever the
\* query is, a command line the shell accepts runs one command, the query
\* script, with the same number of arguments, the prompt being the third.
C16_QueryIsOneArgument ==
    (pc = "q_invoke" /\ Parsed # <<>>) =>
        /\ Len(Parsed) = 1
        /\ Parsed[1][1] = PathString(QUERY_SCRIPT_PATH)
        /\ Len(Parsed[1]) = (IF request.temperature = Null THEN 5 ELSE 7)
        /\ Parsed[1][4] = FormatQuery(request.query)

\* ------------------------------------------------- claims on list_caches
Listed == list_result = "True"
ListedPaths == { cache_info[i].cache_file : i \in 1..Len(cache_info) }
\* The files of the cache directory whose names end in .bin.
CacheFilePaths ==
    { cache_dir[i].path : i \in { k \in 1..Len(cache_dir) :
                                    MatchesBin(Basename(cache_dir[k].path)) } }
\* The registry rows of the name of a path.
RowsNamed(path) ==
    { i \in 1..Len(registry) :
        Basename(registry[i].kv_cache_path) = Basename(path) }

\* C17: a listing with unused_only holds no entry whose usage_count is
\* greater than 0, whatever the directory and the registry hold.
C17_UnusedOnlyListsNoUsedCache ==
    (Listed /\ list_args.unused_only) =>
        \A i \in 1..Len(cache_info) : ~(cache_info[i].usage_count > 0)

\* C17 witness: a listing with unused_only over a directory with a used
\* cache and a never-used one has dropped the first and kept the second.
C17_Witness ==
    /\ Listed
    /\ list_args.unused_only
    /\ list_args.connected
    /\ list_args.days = NoValue
    /\ cache_info # <<>>
    /\ \E p \in CacheFilePaths \ ListedPaths :
          \E i \in RowsNamed(p) : registry[i].usage_count > 0

\* C18: a listing sorted by size has its entries in non-increasing order
\* of size, for every directory, registry and filter setting.
C18_SizeOrderNonIncreasing ==
    (Listed /\ list_args.sort_by = "size") =>
        \A i, j \in 1..Len(cache_info) :
            i < j => cache_info[i].size_mb >= cache_info[j].size_mb

\* C18 witness: a listing by size of two caches that the directory yields
\* smaller first.
C18_Witness ==
    /\ Listed
    /\ list_args.sort_by = "size"
    /\ Len(cache_info) = 2
    /\ Len(cache_dir) = 2
    /\ cache_dir[1].size < cache_dir[2].size
    /\ cache_info[1].size_mb > cache_info[2].size_mb

\* C19: without a connection to the registry the listing does what it does
\* with one as to its result (it fails only for a missing cache directory),
\* it holds every .bin file of the directory, and every entry has
\* usage_count 0; this for every filter setting.
C19_ListingWithoutRegistry ==
    (list_result # "none" /\ ~list_args.connected) =>
        /\ list_result = IF cache_dir_exists THEN "True" ELSE "False"
        /\ cache_dir_exists =>
              /\ ListedPaths = CacheFilePaths
              /\ Len(cache_info) = Cardinality(CacheFilePaths)
              /\ \A i \in 1..Len(cache_info) : cache_info[i].usage_count = 0

\* C19 witness: a listing without a connection, with both filters on, of a
\* cache whose registry row says it was used long ago.
C19_Witness ==
    /\ Listed
    /\ ~list_args.connected
    /\ list_args.unused_only
    /\ list_args.days # NoValue
    /\ cache_info # <<>>
    /\ \E p \in ListedPaths : \E i \in RowsNamed(p) :
          /\ registry[i].usage_count > 0
          /\ registry[i].last_used # NoValue
          /\ registry[i].last_used < Now - list_args.days

\* C20: with the days argument given, every entry of the listing has a
\* last_used, and one that is not older than now - days.
C20_DaysFilterKeepsOnlyRecentlyUsed ==
    (Listed /\ list_args.days # NoValue) =>
        \A i \in 1..Len(cache_info) :
            /\ cache_info[i].last_used # NoValue
            /\ cache_info[i].last_used >= Now - list_args.days

\* The last registry row of the name of a path, 0 when there is none.
LastRowNamed(path) ==
    IF RowsNamed(path) = {} THEN 0
    ELSE CHOOSE i \in RowsNamed(path) : \A k \in RowsNamed(path) : k <= i
\* The registry row of a path itself, 0 when there is none.
RowOf(path) ==
    IF \E i \in 1..Len(registry) : registry[i].kv_cache_path = path
      THEN CHOOSE i \in 1..Len(registry) : registry[i].kv_cache_path = path
      ELSE 0
\* The file of the cache directory at a path.
FileAt(path) ==
    cache_dir[CHOOSE k \in 1..Len(cache_dir) : cache_dir[k].path = path]
\* An entry carries the values of a registry row (a NULL usage_count as 0).
CarriesRow(entry, row) ==
    /\ entry.document_id = row.document_id
    /\ entry.file_name = row.file_name
    /\ entry.last_used = row.last_used
    /\ entry.created_at = row.created_at
    /\ entry.usage_count = IF row.usage_count = NoValue THEN 0
                           ELSE row.usage_count
\* An entry carries the values given to a file without a row.
CarriesDefaults(entry) ==
    /\ entry.document_id = "unknown"
    /\ entry.usage_count = 0
    /\ entry.last_used = NoValue
    /\ entry.created_at = FileAt(entry.cache_file).mtime

\* C24: files are joined to registry rows by basename only: with the store
\* answering, every listed file whose name some row has carries the values
\* of the last row of that name, so two files of one name in different
\* directories carry the values of one and the same row.
C24_JoinedByBasename ==
    (Listed /\ list_args.connected) =>
        /\ \A i \in 1..Len(cache_info) :
              LastRowNamed(cache_info[i].cache_file) # 0 =>
                 CarriesRow(cache_info[i],
                            registry[LastRowNamed(cache_info[i].cache_file)])
        /\ \A i, j \in 1..Len(cache_info) :
              (/\ cache_info[i].cache_name = cache_info[j].cache_name
               /\ LastRowNamed(cache_info[i].cache_file) # 0) =>
                 /\ cache_info[i].document_id = cache_info[j].document_id
                 /\ cache_info[i].file_name = cache_info[j].file_name
                 /\ cache_info[i].usage_count = cache_info[j].usage_count
                 /\ cache_info[i].last_used = cache_info[j].last_used

\* C24 witness: a.bin and sub/a.bin are both listed, each has a row of its
\* own with another document, and both carry the document of the second row.
C24_Witness ==
    /\ Listed
    /\ list_args.connected
    /\ Len(cache_info) = 2
    /\ cache_info[1].cache_file # cache_info[2].cache_file
    /\ cache_info[1].cache_name = cache_info[2].cache_name
    /\ Len(registry) = 2
    /\ RowOf(cache_info[1].cache_file) # 0
    /\ RowOf(cache_info[2].cache_file) # 0
    /\ registry[1].document_id # registry[2].document_id
    /\ cache_info[1].document_id = registry[2].document_id
    /\ cache_info[2].document_id = registry[2].document_id

\* C25 as claimed: a listed file that has no registry row reports usage 0,
\* document "unknown", no last use and its modification time; a file that
\* has a row reports the values of its row.  (Stated for a store that
\* answers.)
C25_DefaultsWithoutOwnRecord ==
    (Listed /\ list_args.connected) =>
        \A i \in 1..Len(cache_info) :
            IF RowOf(cache_info[i].cache_file) = 0
              THEN CarriesDefaults(cache_info[i])
              ELSE CarriesRow(cache_info[i],
                              registry[RowOf(cache_info[i].cache_file)])

\* C25 amended: a listed file reports usage 0, document "unknown", no last
\* use and its modification time when the store does not answer or no row
\* has the file's name; a file that has a row of its own, and no other row
\* of its name, reports the values of that row when the store answers.
C25_DefaultsWithoutNamedRecord ==
    Listed =>
        \A i \in 1..Len(cache_info) :
            /\ (~list_args.connected \/ RowsNamed(cache_info[i].cache_file) = {})
                  => CarriesDefaults(cache_info[i])
            /\ (/\ list_args.connected
                /\ RowOf(cache_info[i].cache_file) # 0
                /\ RowsNamed(cache_info[i].cache_file)
                      = {RowOf(cache_info[i].cache_file)})
                  => CarriesRow(cache_info[i],
                                registry[RowOf(cache_info[i].cache_file)])

\* C25 witness: a listing of b.bin, which no row names, and of a.bin, which
\* has a row, with the store answering.
C25_Witness ==
    /\ Listed
    /\ list_args.connected
    /\ Len(cache_info) = 2
    /\ \E i, j \in 1..2 :
          /\ RowsNamed(cache_info[i].cache_file) = {}
          /\ cache_info[i].created_at = 6
          /\ RowOf(cache_info[j].cache_file) # 0
          /\ cache_info[j].document_id # "unknown"

\* C28: every entry of a listing is a .bin file of the cache directory, no
\* file is listed twice, and without filters every .bin file is listed; so
\* a row whose file is gone gives no entry.
C28_ListsExactlyTheCacheFiles ==
    Listed =>
        /\ ListedPaths \subseteq CacheFilePaths
        /\ Cardinality(ListedPaths) = Len(cache_info)
        /\ (list_args.days = NoValue /\ ~list_args.unused_only) =>
              Len(cache_info) = Cardinality(CacheFilePaths)

\* C28 witness: an unfiltered listing of a directory with one cache and one
\* other file, with a row in the registry whose file is gone.
C28_Witness ==
    /\ Listed
    /\ list_args.connected
    /\ list_args.days = NoValue
    /\ ~list_args.unused_only
    /\ Len(cache_dir) = 2
    /\ Len(cache_info) = 1
    /\ \E i \in 1..Len(registry) :
          registry[i].kv_cache_path \notin { cache_dir[k].path : k \in 1..Len(cache_dir) }

\* ------------------------------------------------- further bridge claims
\* C23: a create-cache request without a document id (the key absent or its
\* value empty) ends in the step that follows the parsing of the body: the
\* response is the 500 of "documentId is required", whether or not the temp
\* file exists, and no directory is made, no file touched and no process
\* started.
C23_DocumentIdCheckedFirst ==
    [][(pc = "validate" /\ request.documentId = <<>>) =>
          /\ pc' = "done"
          /\ response' = ErrorResponse("documentId is required")
          /\ dirs' = dirs
          /\ fs' = fs
          /\ spawned' = spawned /\ spawned = 0]_vars

\* C23 witness: such a request was answered, with no temp file there and
\* the directory of the cache path not made.
C23_Witness ==
    /\ pc = "done"
    /\ IsCreate
    /\ request.documentId = <<>>
    /\ response = ErrorResponse("documentId is required")
    /\ ~Exists(request.tempFilePath)
    /\ request.kvCachePath = KvFile
    /\ Dirname(KvFile) \notin dirs

\* C26: promotion copies and does not move: when a create that promoted
\* returns, the new cache is at its own path with the content the create
\* command left there; and once the create command has exited 0 and left
\* its output, no later step of the request changes or removes that file.
C26_CreatedCacheIsKept ==
    /\ []((Returned /\ promotion = "set") =>
            /\ Exists(request.kvCachePath)
            /\ fs[request.kvCachePath] = response.kvCacheSize)
    /\ [][(/\ pc \in {"verify", "cleanup", "respond"}
           /\ process.returncode = 0
           /\ Exists(request.kvCachePath)) =>
            fs'[request.kvCachePath] = fs[request.kvCachePath]]_vars

\* The request served is a GET /health.
IsHealth == "path" \in DOMAIN request /\ request.path = "/health"
MissingRequired == { p \in RequiredPaths : ~Exists(p) }

\* C22: the answer to GET /health is a 200 whose status is "unhealthy"
\* exactly when the query script, the create script or the model is
\* missing, with one issue for each of them that is missing; a missing
\* master cache changes neither the status nor the issues.
C22_UnhealthyIffRequiredMissing ==
    (pc = "done" /\ IsHealth) =>
        /\ response.status = 200
        /\ response.body.status \in {"healthy", "unhealthy"}
        /\ response.body.status = "unhealthy" <=> MissingRequired # {}
        /\ Len(response.body.issues) = Cardinality(MissingRequired)

\* C22 witness: a health check with the scripts and the model installed and
\* no master cache answered "healthy" with no issue.
C22_Witness ==
    /\ pc = "done"
    /\ IsHealth
    /\ ~Exists(MASTER_KV_CACHE)
    /\ MissingRequired = {}
    /\ response.body.status = "healthy"
    /\ response.body.issues = <<>>

\* The paths that hold caches.
CachePaths == {KvFile, MASTER_KV_CACHE}

\* C27: in every step of every request, a cache file changes only when the
\* create command writes its output path, or, for the master cache, in the
\* promotion of a create-cache request whose command exited 0, whose output
\* exists and which is flagged for promotion; queries, health checks,
\* unknown routes and rejected or failed creates change no cache file.
C27_OnlyPromotionWritesMaster ==
    [][\A p \in CachePaths :
          fs'[p] # fs[p] =>
             \/ pc = "invoke" /\ p = request.kvCachePath
             \/ /\ p = MASTER_KV_CACHE
                /\ pc = "verify"
                /\ IsCreate
                /\ process.returncode = 0
                /\ Exists(request.kvCachePath)
                /\ WantsMaster(request)]_vars

====
